---- MODULE Spec2Model ----
(***************************************************************************)
(* masterblog (src/app.py): a Flask blog whose posts live in one JSON      *)
(* file, blog_posts.json.  Every handler loads the whole file, changes the *)
(* list in memory and writes the whole list back.                          *)
(*                                                                         *)
(* Three specifications share the handlers' code:                          *)
(*   Spec      requests served one at a time, from an empty or absent file *)
(*   SpecAny   one request served on an arbitrary stored collection        *)
(*   SpecConc  three workers whose loads and saves interleave              *)
(***************************************************************************)
EXTENDS Integers, Sequences, FiniteSets, TLC

\* ------------------------------------------------------------- bounds
\* largest post id of an initial store; requests target ids 1 .. MaxId + 1
MaxId == 3
\* longest initial store
MaxInit == 2
\* successful adds in one sequential run
MaxAdds == 3

\* ------------------------------------------------------------- values
\* Python's None: what request.form.get returns for a field that was not sent
None == "<None>"

\* a post: the dict with keys id, author, title, content
Post(id, author, title, content) ==
    [id |-> id, author |-> author, title |-> title, content |-> content]

\* the workers that serve requests concurrently
Procs == {1, 2, 3}

\* the three form fields of a request (request.form.get, lines 57-59, 143-145)
Form(a, t, c) == [author |-> a, title |-> t, content |-> c]

\* a request that carries no form fields (every GET, and POST /delete)
NoForm == Form(None, None, None)

\* what one form field can be: not sent, sent empty, sent with text
FormValues == {None, "", "B"}

\* every form a client can submit over FormValues
AllForms == {Form(a, t, c) : a \in FormValues, t \in FormValues, c \in FormValues}

\* the forms of the multi-request runs: complete, author only, empty title
SeqForms == {Form("A", "T", "C"), Form("B", None, None), Form("A", "", "C")}

\* the forms of the concurrent adds, and of the concurrent updates
ConcAddForms == {Form("A", "T", "C"), Form("B", "T", "C")}
ConcUpdateForms == {Form("B", None, None)}

\* the ids a request's URL names: the stored ones and one beyond
PostIds == 1 .. (MaxId + 1)

\* a request: the route, the method, the <int:post_id> of the URL (0 when the
\* route has none) and the form
Request(op, method, post_id, form) ==
    [id |-> post_id, op |-> op, method |-> method, form |-> form]

\* no request served yet
NoReq == Request("none", "GET", 0, NoForm)

\* the greatest element of a non-empty set of integers
SetMax(S) == CHOOSE x \in S : \A y \in S : y <= x

\* the ids of a list of posts
Ids(posts) == {posts[i].id : i \in DOMAIN posts}

\* ------------------------------------------------------------- the store
\* json.dump of one field value: None becomes null, a string a JSON string
json_dump_value(v) == IF v = None THEN <<"null">> ELSE <<"string", v>>

\* json.load of one field value
json_load_value(j) == IF j = <<"null">> THEN None ELSE j[2]

\* json.dump(posts, file): the JSON array written to the file
json_dump(posts) ==
    [i \in DOMAIN posts |->
        [id |-> posts[i].id,
         author |-> json_dump_value(posts[i].author),
         title |-> json_dump_value(posts[i].title),
         content |-> json_dump_value(posts[i].content)]]

\* json.load(file): the list of dicts read back
json_load(doc) ==
    [i \in DOMAIN doc |->
        [id |-> doc[i].id,
         author |-> json_load_value(doc[i].author),
         title |-> json_load_value(doc[i].title),
         content |-> json_load_value(doc[i].content)]]

\* load_posts(): the file's posts, or [] when the file does not exist
load_posts(e, f) == IF e THEN json_load(f) ELSE <<>>

\* ------------------------------------------------------------- handlers' code
\* variant: `and` in place of `or`
invalid_form_all(form) ==
    /\ form.author \in {None, ""}
    /\ form.title \in {None, ""}
    /\ form.content \in {None, ""}

\* `not author or not title or not content`: None and "" are falsy
invalid_form(form) ==
    \/ form.author \in {None, ""}
    \/ form.title \in {None, ""}
    \/ form.content \in {None, ""}

\* variant: len(posts) + 1
next_id_len(posts) == Len(posts) + 1

\* variant: the greatest id itself, without the + 1
next_id_max(posts) == (IF posts = <<>> THEN 0 ELSE SetMax(Ids(posts)))

\* max([post["id"] for post in posts], default=0) + 1
next_id(posts) == (IF posts = <<>> THEN 0 ELSE SetMax(Ids(posts))) + 1

\* the dict built for the new post
new_post(id, form) == Post(id, form.author, form.title, form.content)

\* variant: posts.insert(0, new_post)
add_posts_front(posts, form) == <<new_post(next_id(posts), form)>> \o posts

\* posts.append(new_post)
add_posts(posts, form) == Append(posts, new_post(next_id(posts), form))

\* variant: `>` in place of `!=`
delete_posts_above(posts, post_id) == SelectSeq(posts, LAMBDA p : p.id > post_id)

\* [post for post in posts if post["id"] != post_id]
delete_posts(posts, post_id) == SelectSeq(posts, LAMBDA p : p.id # post_id)

\* next((p for p in posts if p["id"] == post_id), None): the index of the
\* first post with that id, 0 for None
find_post(posts, post_id) ==
    IF \E i \in DOMAIN posts : posts[i].id = post_id
    THEN CHOOSE i \in DOMAIN posts :
            /\ posts[i].id = post_id
            /\ \A j \in DOMAIN posts : posts[j].id = post_id => i <= j
    ELSE 0

\* variant: every post with the id is changed, not the first only
update_posts_all(posts, i, form) ==
    [j \in DOMAIN posts |->
        IF posts[j].id = posts[i].id
        THEN [posts[j] EXCEPT !.author = form.author,
                              !.title = form.title,
                              !.content = form.content]
        ELSE posts[j]]

\* post['author'] = ..., post['title'] = ..., post['content'] = ...: the
\* found dict is changed in place inside posts
update_posts(posts, i, form) ==
    [posts EXCEPT ![i] = [@ EXCEPT !.author = form.author,
                                   !.title = form.title,
                                   !.content = form.content]]

\* what a handler answers and whether and what it saves
Result(status, saved, posts) == [posts |-> posts, status |-> status, saved |-> saved]

\* add(), given the request and the list load_posts() would return
add_result(rq, posts) ==
    IF rq.method = "POST"
    THEN IF invalid_form(rq.form)
         THEN Result(400, FALSE, posts)
         ELSE Result(302, TRUE, add_posts(posts, rq.form))
    ELSE Result(200, FALSE, posts)

\* delete(post_id)
delete_result(rq, posts) == Result(302, TRUE, delete_posts(posts, rq.id))

\* variant: update() without the `if not post` return
update_result_nocheck(rq, posts) ==
    IF rq.method = "POST"
    THEN Result(302, TRUE,
                IF find_post(posts, rq.id) = 0 THEN posts
                ELSE update_posts(posts, find_post(posts, rq.id), rq.form))
    ELSE Result(200, FALSE, posts)

\* update(post_id)
update_result(rq, posts) ==
    IF find_post(posts, rq.id) = 0
    THEN Result(404, FALSE, posts)
    ELSE IF rq.method = "POST"
         THEN Result(302, TRUE, update_posts(posts, find_post(posts, rq.id), rq.form))
         ELSE Result(200, FALSE, posts)

\* the handler the route table picks for a request
handler_result(rq, posts) ==
    CASE rq.op = "add" -> add_result(rq, posts)
      [] rq.op = "delete" -> delete_result(rq, posts)
      [] rq.op = "update" -> update_result(rq, posts)
      [] OTHER -> Result(200, FALSE, posts)

\* ------------------------------------------------------------- state
VARIABLES
    exists,      \* os.path.exists(DATA_FILE)
    file,        \* the JSON array in blog_posts.json
    req,         \* the request served last, one at a time
    resp,        \* its status code (0: none yet)
    prev,        \* the stored posts when that request arrived
    wrote,       \* whether that request called save_posts
    assigned,    \* the ids given out by successful adds, in order
    pc,          \* concurrent worker: "idle", "loaded" (between load and save), "done"
                 \* (each worker serves one request)
    local,       \* concurrent worker: the list its load_posts() returned
    creq,        \* concurrent worker: the request it serves
    cresp,       \* concurrent worker: the status code it answered
    stale,       \* concurrent worker: another worker saved since its load
    raced,       \* concurrent worker: it saved while stale
    lastWriter   \* the worker whose save wrote the file last (0: none)

seqVars == <<req, resp, prev, wrote, assigned>>
concVars == <<pc, local, creq, cresp, stale, raced, lastWriter>>
vars == <<exists, file, req, resp, prev, wrote, assigned,
          pc, local, creq, cresp, stale, raced, lastWriter>>

\* the stored collection: what load_posts() returns now
Stored == load_posts(exists, file)

\* save_posts(posts): the file is created or overwritten with the whole list
save_posts(posts) ==
    /\ exists' = TRUE
    /\ file' = json_dump(posts)

\* ------------------------------------------------------------- one at a time
\* a whole handler run: load, compute, save if the handler saves, answer
Serve(rq) ==
    LET r == handler_result(rq, Stored) IN
    /\ req' = rq
    /\ resp' = r.status
    /\ prev' = Stored
    /\ wrote' = r.saved
    /\ IF r.saved THEN save_posts(r.posts) ELSE UNCHANGED <<exists, file>>
    /\ assigned' = IF rq.op = "add" /\ r.status = 302
                   THEN Append(assigned, r.posts[Len(r.posts)].id)
                   ELSE assigned

\* GET / : index()
index ==
    /\ Serve(Request("index", "GET", 0, NoForm))
    /\ UNCHANGED concVars

\* GET or POST /add : add()
add(method, form) ==
    /\ Serve(Request("add", method, 0, form))
    /\ UNCHANGED concVars

\* POST /delete/<post_id> : delete(post_id)
delete(post_id) ==
    /\ Serve(Request("delete", "POST", post_id, NoForm))
    /\ UNCHANGED concVars

\* GET or POST /update/<post_id> : update(post_id)
update(method, post_id, form) ==
    /\ Serve(Request("update", method, post_id, form))
    /\ UNCHANGED concVars

InitCommon ==
    /\ req = NoReq
    /\ resp = 0
    /\ prev = <<>>
    /\ wrote = FALSE
    /\ assigned = <<>>
    /\ pc = [p \in Procs |-> "idle"]
    /\ local = [p \in Procs |-> <<>>]
    /\ creq = [p \in Procs |-> NoReq]
    /\ cresp = [p \in Procs |-> 0]
    /\ stale = [p \in Procs |-> FALSE]
    /\ raced = [p \in Procs |-> FALSE]
    /\ lastWriter = 0

\* the file is absent, or holds the empty array
Init ==
    /\ exists \in BOOLEAN
    /\ file = <<>>
    /\ InitCommon

Next ==
    \/ index
    \/ add("GET", NoForm)
    \/ \E f \in SeqForms : Len(assigned) < MaxAdds /\ add("POST", f)
    \/ \E i \in PostIds : delete(i)
    \/ \E i \in PostIds : update("GET", i, NoForm)
    \/ \E i \in PostIds : \E f \in SeqForms : update("POST", i, f)

Spec == Init /\ [][Next]_vars

\* ------------------------------------------------------------- any store
\* the posts an initial file can hold
InitPosts ==
    {Post(i, a, "T", "C") : i \in 1 .. MaxId, a \in {"X", "Y"}}

\* the lists of at most n posts over a set
SeqsUpTo(S, n) == UNION {[1 .. k -> S] : k \in 0 .. n}

\* any file: absent, or any list of posts (ids may repeat in a file edited
\* by hand)
InitAny ==
    /\ \/ exists = FALSE /\ file = <<>>
       \/ exists = TRUE /\ file \in {json_dump(s) : s \in SeqsUpTo(InitPosts, MaxInit)}
    /\ InitCommon

\* one request, any request
NextAny ==
    \/ req = NoReq /\ index
    \/ req = NoReq /\ add("GET", NoForm)
    \/ \E f \in AllForms : req = NoReq /\ add("POST", f)
    \/ \E i \in PostIds : req = NoReq /\ delete(i)
    \/ \E i \in PostIds : req = NoReq /\ update("GET", i, NoForm)
    \/ \E i \in PostIds : \E f \in AllForms : req = NoReq /\ update("POST", i, f)

SpecAny == InitAny /\ [][NextAny]_vars

\* ------------------------------------------------------------- concurrent
\* add() reads the file only after the form passed validation; delete() and
\* update() read it first thing
loads(rq) == rq.op # "add" \/ (rq.method = "POST" /\ ~invalid_form(rq.form))

\* a worker takes a request and runs its handler up to and including
\* load_posts(); a handler that does not go on to save answers at once.
\* Workers are interchangeable, so they are numbered in the order in which
\* their requests arrive; their saves happen in any order.
begin(p, rq) ==
    LET posts == IF loads(rq) THEN Stored ELSE <<>>
        r == handler_result(rq, posts)
    IN
    /\ pc[p] = "idle"
    /\ \A q \in Procs : q < p => pc[q] # "idle"
    /\ creq' = [creq EXCEPT ![p] = rq]
    /\ local' = [local EXCEPT ![p] = posts]
    /\ pc' = [pc EXCEPT ![p] = IF r.saved THEN "loaded" ELSE "done"]
    /\ cresp' = [cresp EXCEPT ![p] = IF r.saved THEN 0 ELSE r.status]
    /\ stale' = [stale EXCEPT ![p] = FALSE]
    /\ raced' = [raced EXCEPT ![p] = FALSE]
    /\ UNCHANGED <<exists, file, lastWriter>>
    /\ UNCHANGED seqVars

\* add() up to load_posts()
add_load(p, method, form) == begin(p, Request("add", method, 0, form))

\* delete() up to load_posts()
delete_load(p, post_id) == begin(p, Request("delete", "POST", post_id, NoForm))

\* update() up to load_posts()
update_load(p, method, post_id, form) == begin(p, Request("update", method, post_id, form))

\* the rest of the handler: the change to the loaded list, save_posts, the
\* redirect
save(p) ==
    LET r == handler_result(creq[p], local[p]) IN
    /\ pc[p] = "loaded"
    /\ save_posts(r.posts)
    /\ pc' = [pc EXCEPT ![p] = "done"]
    /\ cresp' = [cresp EXCEPT ![p] = r.status]
    /\ raced' = [raced EXCEPT ![p] = stale[p]]
    /\ stale' = [q \in Procs |-> IF q # p /\ pc[q] = "loaded" THEN TRUE ELSE stale[q]]
    /\ lastWriter' = p
    /\ UNCHANGED <<local, creq>>
    /\ UNCHANGED seqVars

\* no post id occurs twice
UniqueIds(posts) ==
    \A i \in DOMAIN posts : \A j \in DOMAIN posts : posts[i].id = posts[j].id => i = j

\* any file whose posts have distinct ids
InitConc ==
    /\ \/ exists = FALSE /\ file = <<>>
       \/ /\ exists = TRUE
          /\ file \in {json_dump(s) : s \in {t \in SeqsUpTo(InitPosts, MaxInit) :
                                               /\ UniqueIds(t)
                                               /\ \A i \in DOMAIN t : t[i].author = "X"}}
    /\ InitCommon

NextConc ==
    \/ \E p \in Procs : \E f \in ConcAddForms : add_load(p, "POST", f)
    \/ \E p \in Procs : \E i \in 1 .. MaxId : delete_load(p, i)
    \/ \E p \in Procs : \E i \in 1 .. MaxId : \E f \in ConcUpdateForms :
          update_load(p, "POST", i, f)
    \/ \E p \in Procs : save(p)

SpecConc == InitConc /\ [][NextConc]_vars

\* ------------------------------------------------------------- properties
\* a form field that is missing or empty
Blank(v) == v = None \/ v = ""

\* the index of the first post of a list with the given id (the id occurs)
FirstWith(posts, id) ==
    CHOOSE i \in DOMAIN posts :
        posts[i].id = id /\ \A j \in 1 .. (i - 1) : posts[j].id # id

\* C1: a POST /add with three non-empty fields answers the redirect and
\* leaves the store holding the previous posts, in order, followed by one new
\* post whose id is max(stored ids, 0) + 1 and whose fields are the submitted
\* ones; on an empty or absent store that is the single post with id 1.
C1_AddAppends ==
    (/\ req.op = "add"
     /\ req.method = "POST"
     /\ ~Blank(req.form.author) /\ ~Blank(req.form.title) /\ ~Blank(req.form.content))
    => /\ resp = 302
       /\ Len(Stored) = Len(prev) + 1
       /\ \A i \in DOMAIN prev : Stored[i] = prev[i]
       /\ Stored[Len(Stored)].id = SetMax(Ids(prev) \cup {0}) + 1
       /\ Stored[Len(Stored)].author = req.form.author
       /\ Stored[Len(Stored)].title = req.form.title
       /\ Stored[Len(Stored)].content = req.form.content
       /\ (prev = <<>> => Len(Stored) = 1 /\ Stored[1].id = 1)

\* an add on the store [{id:1},{id:3}] that produced id 4
C1_Witness ==
    /\ req.op = "add" /\ resp = 302
    /\ Len(prev) = 2 /\ prev[1].id = 1 /\ prev[2].id = 3
    /\ Len(Stored) = 3 /\ Stored[3].id = 4 /\ Stored[3].author = "B"

\* C2: from an empty or absent store, after any sequence of requests served
\* one at a time, the stored ids are pairwise distinct and positive.
C2_UniquePositiveIds ==
    /\ \A i \in DOMAIN Stored : \A j \in DOMAIN Stored :
          i # j => Stored[i].id # Stored[j].id
    /\ \A i \in DOMAIN Stored : Stored[i].id >= 1

\* two posts stored after three adds and a delete
C2_Witness ==
    /\ Len(assigned) = 3
    /\ Len(Stored) = 2
    /\ req.op = "add" /\ resp = 302

\* C3: GET or POST /update/{id} with an id no stored post has answers 404 and
\* does not save: the stored collection is what it was.
C3_UpdateMissing ==
    (req.op = "update" /\ \A i \in DOMAIN prev : prev[i].id # req.id)
    => /\ resp = 404
       /\ ~wrote
       /\ Stored = prev

\* a POST /update with a complete form for an id absent from a non-empty store
C3_Witness ==
    /\ req.op = "update" /\ req.method = "POST"
    /\ req.form = Form("B", "B", "B")
    /\ prev # <<>>
    /\ \A i \in DOMAIN prev : prev[i].id # req.id
    /\ resp = 404

\* C4: POST /delete/{id} always answers the redirect and leaves exactly the
\* previous posts whose id differs from id, in their order; with no such id
\* stored the collection is unchanged.
C4_DeleteFilters ==
    req.op = "delete"
    => LET keep == {i \in DOMAIN prev : prev[i].id # req.id} IN
       /\ resp = 302
       /\ Len(Stored) = Cardinality(keep)
       /\ \A i \in keep : Stored[Cardinality({j \in keep : j <= i})] = prev[i]
       /\ (keep = DOMAIN prev => Stored = prev)

\* a delete that removed the first of two posts
C4_Witness ==
    /\ req.op = "delete" /\ resp = 302
    /\ Len(prev) = 2 /\ prev[1].id = req.id /\ prev[2].id # req.id
    /\ Stored = <<prev[2]>>

\* C5: a POST /add with a missing or empty field answers 400 and leaves the
\* stored collection unchanged.
C5_AddRejectsBlank ==
    (/\ req.op = "add"
     /\ req.method = "POST"
     /\ (Blank(req.form.author) \/ Blank(req.form.title) \/ Blank(req.form.content)))
    => /\ resp = 400
       /\ ~wrote
       /\ Stored = prev

\* an add with only the title empty, on a non-empty store
C5_Witness ==
    /\ req.op = "add" /\ req.method = "POST"
    /\ req.form = Form("B", "", "B")
    /\ prev # <<>>
    /\ resp = 400

\* C6: a POST /update/{id} for a stored post that sends only an author sets
\* the author and leaves the post's title and content as they were.
C6_AuthorOnlyKeepsRest ==
    (/\ req.op = "update" /\ req.method = "POST"
     /\ \E i \in DOMAIN prev : prev[i].id = req.id
     /\ req.form.author # None /\ req.form.title = None /\ req.form.content = None)
    => LET i == FirstWith(prev, req.id) IN
       /\ Stored[i].author = req.form.author
       /\ Stored[i].title = prev[i].title
       /\ Stored[i].content = prev[i].content

\* C7: two POST /add requests that loaded the same list before either saved
\* both answer the redirect, yet the store holds only one post more than that
\* list: the last writer's, and the other request's post is not stored.
C7_LostUpdate ==
    \A p \in Procs : \A q \in Procs \ {p} :
        (/\ pc[p] = "done" /\ creq[p].op = "add" /\ cresp[p] = 302
         /\ pc[q] = "done" /\ creq[q].op = "add" /\ cresp[q] = 302
         /\ local[p] = local[q]
         /\ raced[q] /\ lastWriter = q)
        => /\ Len(Stored) = Len(local[p]) + 1
           /\ \A i \in DOMAIN local[q] : Stored[i] = local[q][i]
           /\ Stored[Len(Stored)].author = creq[q].form.author
           /\ (creq[p].form # creq[q].form =>
                  \A i \in DOMAIN Stored :
                      ~(/\ Stored[i].author = creq[p].form.author
                        /\ Stored[i].id = Stored[Len(Stored)].id))

\* workers 1 and 2 both added to the same one-post list, 1 saved first, 2
\* overwrote it, and worker 3 took no part
C7_Witness ==
    /\ pc[1] = "done" /\ creq[1].op = "add" /\ cresp[1] = 302
    /\ pc[2] = "done" /\ creq[2].op = "add" /\ cresp[2] = 302
    /\ pc[3] = "idle"
    /\ creq[1].form.author = "A" /\ creq[2].form.author = "B"
    /\ Len(local[1]) = 1 /\ local[1] = local[2]
    /\ raced[2] /\ lastWriter = 2
    /\ Len(Stored) = 2 /\ Stored[2].author = "B"

\* C8 as claimed: every successful add assigns an id greater than every id an
\* earlier add assigned.
C8_NeverReassigned ==
    \A i \in DOMAIN assigned : \A j \in DOMAIN assigned :
        i < j => assigned[i] < assigned[j]

\* C8 as amended: every successful add assigns an id greater than every id
\* stored when the request arrived.
C8_AboveStored ==
    (req.op = "add" /\ resp = 302)
    => /\ assigned # <<>>
       /\ Stored[Len(Stored)].id = assigned[Len(assigned)]
       /\ \A i \in DOMAIN prev : prev[i].id < assigned[Len(assigned)]

\* an add, on a non-empty store, that gave out an id an earlier add had given
C8_Witness ==
    /\ req.op = "add" /\ resp = 302
    /\ prev # <<>>
    /\ \E i \in 1 .. (Len(assigned) - 1) : assigned[i] = assigned[Len(assigned)]

\* C9: a POST /update/{id} for a stored id answers the redirect and changes
\* nothing but author, title and content of the first post with that id: the
\* number of posts, that post's id and place, and every other post stay.
C9_UpdateFrame ==
    (/\ req.op = "update" /\ req.method = "POST"
     /\ \E i \in DOMAIN prev : prev[i].id = req.id)
    => LET i == FirstWith(prev, req.id) IN
       /\ resp = 302
       /\ Len(Stored) = Len(prev)
       /\ Stored[i].id = req.id
       /\ \A j \in DOMAIN prev : j # i => Stored[j] = prev[j]

\* an update of a store whose two posts share the id: only the first changed
C9_Witness ==
    /\ req.op = "update" /\ req.method = "POST" /\ resp = 302
    /\ Len(prev) = 2 /\ prev[1].id = req.id /\ prev[2].id = req.id
    /\ req.form.author = "B" /\ prev[1].author = "X"
    /\ Stored[1].author = "B"
    /\ Stored[2] = prev[2]

\* C10: with atomic loads and saves, under every interleaving of concurrent
\* requests on a store with distinct ids, the stored ids stay distinct.
C10_ConcurrentUniqueIds ==
    \A i \in DOMAIN Stored : \A j \in DOMAIN Stored :
        Stored[i].id = Stored[j].id => i = j

\* a worker overwrote another worker's save with an add, two posts stored
C10_Witness ==
    \E q \in Procs :
        /\ raced[q] /\ lastWriter = q
        /\ creq[q].op = "add" /\ cresp[q] = 302
        /\ Len(Stored) = 2

====
